---- MODULE Spec2Model ----
(***************************************************************************)
(* State-machine model of dcos_ovhcloud_installer.py: the provisioning     *)
(* loop of OVHInstances (bulk create, status polling, ERROR recovery,      *)
(* exit-time cleanup) and the pipeline of DCOSInstall (write_config,       *)
(* system_prep, install).  The cloud provider, the remote hosts and the    *)
(* installer are the environment: their answers are chosen with \E.        *)
(***************************************************************************)
EXTENDS Naturals, Integers, Sequences, FiniteSets, TLC

\* ----------------------------------------------------------------- bounds
MaxMasters == 1
MaxAgents == 2
MaxReplacements == 2
MaxLines == 4

\* ------------------------------------------------------ program constants
StopMaxAttemptNumber == 3
PrepRetries == 3
NoIp == 0
Phases == <<"genconf", "install-prereqs", "preflight", "deploy", "postflight">>

\* ------------------------------------------------------------------ state
VARIABLES
    masters, agents,          \* args.masters, args.agents
    pc,                       \* position of the single thread of control
    exitCode,                 \* process exit status (-1 while running)
    exc,                      \* the uncaught exception that ended the run
    instances,                \* OVHInstances.instances, a list of dicts
    wait,                     \* local of create_instances
    cursor,                   \* list positions consumed by the generator
    created,                  \* the bulk create has returned
    nextId,                   \* provider: next instance id it hands out
    remote,                   \* provider: ids created and not deleted
    errored,                  \* ids a poll has reported in ERROR
    postCalls,                \* number of post requests issued
    recDelFailed,             \* a recovery's remote delete has failed
    polled,                   \* ids the current pass has queried
    _flavors, _images, _ssh_keys,   \* the memoized catalog mappings
    fetches,                  \* listing fetches issued, per category
    master_list, agent_list,  \* dcos_config entries
    configWritten,            \* write_config has assigned the lists
    hostIdx, retries, success,\* locals of system_prep
    prepLog,                  \* per host, results of its stream_cmd runs
    phase,                    \* statements of install's try block done
    phaseLog,                 \* install phases invoked, with their result
    cleanupCalls,             \* times cleanup has been entered
    cleanupIdx,               \* position of cleanup's for loop
    deleteLog,                \* ids cleanup issued a delete for
    cleanupRaised,            \* a delete error escaped cleanup
    gwOp, gwOuts,             \* a Gateway call: its method, what each attempt meets
    gwResult,                 \* what the call gave its caller
    rpc,                      \* stream_cmd: position of the caller
    started,                  \* stream_cmd: commands started with Popen
    child,                    \* the command's process: none, running, exited
    returncode,               \* the process's exit code (-1 before it exits)
    produced,                 \* lines the command has written to its stdout
    pipe,                     \* lines written and not yet read
    sink,                     \* lines stream_cmd has written to sys.stdout
    raisedCode                \* the code in the ValueError message (-1: none)

argVars == <<masters, agents>>
provVars == <<instances, wait, cursor, created, nextId, remote, errored,
              postCalls, recDelFailed, polled>>
catVars == <<_flavors, _images, _ssh_keys, fetches>>
cfgVars == <<master_list, agent_list, configWritten>>
prepVars == <<hostIdx, retries, success, prepLog>>
instVars == <<phase, phaseLog>>
cleanVars == <<cleanupCalls, cleanupIdx, deleteLog, cleanupRaised>>
gwVars == <<gwOp, gwOuts, gwResult>>
runVars == <<rpc, started, child, returncode, produced, pipe, sink, raisedCode>>
auxVars == <<gwVars, runVars>>
mainVars == <<argVars, pc, exitCode, exc, provVars, catVars, cfgVars, prepVars,
              instVars, cleanVars>>
vars == <<mainVars, auxVars>>

\* ---------------------------------------------------------------- helpers
Min(S) == CHOOSE x \in S : \A y \in S : x <= y

Ids(insts) == {insts[i].id : i \in 1..Len(insts)}

Ips(insts) == [i \in 1..Len(insts) |-> insts[i].ip]

Range(s) == {s[i] : i \in 1..Len(s)}

\* the address the provider gives the instance with this id
IpOf(id) == 100 + id

Categories == {"flavor", "image", "sshkey"}

\* ---------------------------------------------------------------- gateway
AttemptOutcomes == {"ok", "transient", "permanent"}

AttemptSeqs == [1..StopMaxAttemptNumber -> AttemptOutcomes]

\* retrying.retry(stop_max_attempt_number = max): every exception is retried
Retrying(outs, max) ==
    LET okIdx == {i \in 1..max : outs[i] = "ok"}
    IN  IF okIdx # {}
        THEN [ok |-> TRUE, attempts |-> Min(okIdx), err |-> "none"]
        ELSE [ok |-> FALSE, attempts |-> max, err |-> outs[max]]

OVHClient_get(outs) == Retrying(outs, StopMaxAttemptNumber)

OVHClient_delete(outs) == Retrying(outs, StopMaxAttemptNumber)

\* post is inherited undecorated from ovh.Client: one attempt
OVHClient_post(outs) == Retrying(outs, 1)

\* no call made
NoCall == [ok |-> TRUE, attempts |-> 0, err |-> "none"]

GetResults == {OVHClient_get(o) : o \in AttemptSeqs}

DeleteResults == {OVHClient_delete(o) : o \in AttemptSeqs}

PostResults == {OVHClient_post(o) : o \in AttemptSeqs}

\* ---------------------------------------------------------------- catalog
Listings == {"empty", "hit", "miss"}

\* variant: the property fetches the listing on every access
Lookup_nomemo(cache, g, listing) ==
    IF ~g.ok
    THEN [cache |-> cache, fetched |-> TRUE, err |-> "APIError"]
    ELSE [cache |-> listing, fetched |-> TRUE,
          err |-> IF listing = "hit" THEN "none" ELSE "KeyError"]

\* a memoizing property (flavors, images, ssh_keys) followed by the
\* [region][name] lookup: cache is "empty" (len 0), "hit" (holds the
\* pair asked for) or "miss" (populated without it)
Lookup(cache, g, listing) ==
    IF cache # "empty"
    THEN [cache |-> cache, fetched |-> FALSE,
          err |-> IF cache = "hit" THEN "none" ELSE "KeyError"]
    ELSE IF ~g.ok
    THEN [cache |-> "empty", fetched |-> TRUE, err |-> "APIError"]
    ELSE [cache |-> listing, fetched |-> TRUE,
          err |-> IF listing = "hit" THEN "none" ELSE "KeyError"]

\* ----------------------------------------------------------- termination
\* variant: the process ends without running the atexit handlers
os_exit(code, e) ==
    /\ pc' = "exited"
    /\ exitCode' = code
    /\ exc' = e

\* sys.exit(code) or an uncaught exception: the interpreter runs the atexit
\* handlers (OVHInstances.cleanup, registered in __init__) and then exits
sys_exit(code, e) ==
    /\ pc' = "atexit"
    /\ exitCode' = code
    /\ exc' = e

Uncaught(e) == sys_exit(1, e)

Running == UNCHANGED <<exitCode, exc>>

\* ------------------------------------------------------------------- init
\* the state after DCOSInstall(args, OVHInstances(args)), args apart
MainStart ==
    /\ pc = "download"
    /\ exitCode = -1
    /\ exc = "none"
    /\ instances = <<>>
    /\ wait = FALSE
    /\ cursor = 0
    /\ created = FALSE
    /\ nextId = 1
    /\ remote = {}
    /\ errored = {}
    /\ postCalls = 0
    /\ recDelFailed = FALSE
    /\ polled = {}
    /\ _flavors = "empty"
    /\ _images = "empty"
    /\ _ssh_keys = "empty"
    /\ fetches = [c \in Categories |-> 0]
    /\ master_list = <<>>
    /\ agent_list = <<>>
    /\ configWritten = FALSE
    /\ hostIdx = 0
    /\ retries = 0
    /\ success = FALSE
    /\ prepLog = <<>>
    /\ phase = 0
    /\ phaseLog = <<>>
    /\ cleanupCalls = 0
    /\ cleanupIdx = 0
    /\ deleteLog = <<>>
    /\ cleanupRaised = FALSE

\* no Gateway call under observation
GwIdle ==
    /\ gwOp = "get"
    /\ gwOuts = [i \in 1..StopMaxAttemptNumber |-> "ok"]
    /\ gwResult = NoCall

\* no stream_cmd call under observation
RunIdle ==
    /\ rpc = "idle"
    /\ started = 0
    /\ child = "none"
    /\ returncode = -1
    /\ produced = <<>>
    /\ pipe = <<>>
    /\ sink = <<>>
    /\ raisedCode = -1

Init ==
    /\ masters \in 0..MaxMasters
    /\ agents \in 0..MaxAgents
    /\ masters + agents >= 1
    /\ MainStart
    /\ GwIdle
    /\ RunIdle

\* --------------------------------------------------------------- download
\* DCOSInstall.download: exits 1 when genconf/ip-detect or genconf/ssh_key
\* is missing
Download ==
    /\ pc = "download"
    /\ \E filesPresent \in BOOLEAN :
         IF filesPresent
         THEN /\ pc' = "create"
              /\ Running
         ELSE sys_exit(1, "none")
    /\ UNCHANGED <<auxVars, argVars, provVars, catVars, cfgVars, prepVars, instVars,
                   cleanVars>>

\* -------------------------------------------------------- create_instance
\* what a property's listing fetch can answer: nothing is fetched once the
\* mapping is populated
FetchOutcomes(cache) ==
    IF cache = "empty"
    THEN {[g |-> g, listing |-> l] : g \in GetResults, l \in Listings}
    ELSE {[g |-> NoCall, listing |-> cache]}

\* OVHInstances.create_instance: the three catalog lookups in order, then
\* the bulk post; the first exception ends it.  The result carries the new
\* catalog mappings, the categories fetched, whether the post was issued,
\* the exception raised and the list of new instances ({'id': ...} only)
create_instance(num, ff, fi, fk, p) ==
    LET F == Lookup(_flavors, ff.g, ff.listing)
        I == IF F.err = "none"
             THEN Lookup(_images, fi.g, fi.listing)
             ELSE [cache |-> _images, fetched |-> FALSE, err |-> F.err]
        K == IF I.err = "none"
             THEN Lookup(_ssh_keys, fk.g, fk.listing)
             ELSE [cache |-> _ssh_keys, fetched |-> FALSE, err |-> I.err]
        posted == K.err = "none"
        err == IF ~posted THEN K.err
               ELSE IF p.ok THEN "none" ELSE "APIError"
    IN  [flavors |-> F.cache, images |-> I.cache, ssh_keys |-> K.cache,
         fetched |-> [c \in Categories |->
                        IF \/ c = "flavor" /\ F.fetched
                           \/ c = "image" /\ I.fetched
                           \/ c = "sshkey" /\ K.fetched
                        THEN 1 ELSE 0],
         posted |-> posted,
         err |-> err,
         new |-> IF err = "none"
                 THEN [i \in 1..num |-> [id |-> nextId + i - 1, ip |-> NoIp]]
                 ELSE <<>>]

\* the effect of a create_instance call on the catalog and on the provider
CreateEffects(c, remoteBefore) ==
    /\ _flavors' = c.flavors
    /\ _images' = c.images
    /\ _ssh_keys' = c.ssh_keys
    /\ fetches' = [k \in Categories |-> fetches[k] + c.fetched[k]]
    /\ postCalls' = postCalls + (IF c.posted THEN 1 ELSE 0)
    /\ nextId' = nextId + Len(c.new)
    /\ remote' = remoteBefore \cup Ids(c.new)

\* ------------------------------------------------------- create_instances
\* create_instances up to the polling loop: the bulk create of
\* masters + agents instances, then wait = True
CreateInstances ==
    /\ pc = "create"
    /\ \E ff \in FetchOutcomes(_flavors), fi \in FetchOutcomes(_images),
          fk \in FetchOutcomes(_ssh_keys), p \in PostResults :
         LET c == create_instance(masters + agents, ff, fi, fk, p)
         IN  /\ CreateEffects(c, remote)
             /\ instances' = instances \o c.new
             /\ IF c.err = "none"
                THEN /\ created' = TRUE
                     /\ wait' = TRUE
                     /\ pc' = "loop"
                     /\ Running
                ELSE /\ UNCHANGED <<created, wait>>
                     /\ Uncaught(c.err)
    /\ UNCHANGED <<auxVars, argVars, cursor, errored, recDelFailed, polled, cfgVars, prepVars,
                   instVars, cleanVars>>

\* variant: wait is not reset at the head of a pass
PassStart_noreset ==
    /\ pc = "loop"
    /\ wait
    /\ wait' = wait
    /\ cursor' = 0
    /\ polled' = {}
    /\ pc' = "poll"
    /\ Running
    /\ UNCHANGED <<auxVars, argVars, instances, created, nextId, remote,
                   errored, postCalls, recDelFailed, catVars, cfgVars,
                   prepVars, instVars, cleanVars>>

\* while wait: time.sleep(5); wait = False; start the generator
PassStart ==
    /\ pc = "loop"
    /\ wait
    /\ wait' = FALSE
    /\ cursor' = 0
    /\ polled' = {}
    /\ pc' = "poll"
    /\ Running
    /\ UNCHANGED <<auxVars, argVars, instances, created, nextId, remote, errored,
                   postCalls, recDelFailed, catVars, cfgVars, prepVars,
                   instVars, cleanVars>>

\* variant: deploy goes from create_instances straight to system_prep
LoopReturn_skipConfig ==
    /\ pc = "loop"
    /\ ~wait
    /\ pc' = "prep_for"
    /\ Running
    /\ polled' = {}
    /\ UNCHANGED <<auxVars, argVars, instances, wait, cursor, created, nextId,
                   remote, errored, postCalls, recDelFailed, catVars, cfgVars,
                   prepVars, instVars, cleanVars>>

\* the while test fails: create_instances returns to deploy
LoopReturn ==
    /\ pc = "loop"
    /\ ~wait
    /\ pc' = "write_config"
    /\ Running
    /\ polled' = {}
    /\ UNCHANGED <<auxVars, argVars, instances, wait, cursor, created, nextId, remote,
                   errored, postCalls, recDelFailed, catVars, cfgVars,
                   prepVars, instVars, cleanVars>>

\* variant: the generator does not filter on 'ip'
NextUnready_all(insts, cur) ==
    IF cur < Len(insts) THEN cur + 1 ELSE 0

\* (i for i in self.instances if 'ip' not in i): the next list position
\* after the consumed ones whose entry has no ip, 0 when exhausted
NextUnready(insts, cur) ==
    LET S == {j \in (cur + 1)..Len(insts) : insts[j].ip = NoIp}
    IN  IF S = {} THEN 0 ELSE Min(S)

\* the generator is exhausted: the for loop ends
PassEnd ==
    /\ pc = "poll"
    /\ NextUnready(instances, cursor) = 0
    /\ pc' = "loop"
    /\ cursor' = Len(instances)
    /\ Running
    /\ UNCHANGED <<auxVars, argVars, instances, wait, created, nextId, remote,
                   errored, postCalls, recDelFailed, polled, catVars, cfgVars,
                   prepVars, instVars, cleanVars>>

\* the status get fails on all attempts: the error leaves create_instances
PollGetFails ==
    /\ pc = "poll"
    /\ NextUnready(instances, cursor) # 0
    /\ \E outs \in AttemptSeqs : ~OVHClient_get(outs).ok
    /\ cursor' = NextUnready(instances, cursor)
    /\ polled' = polled \cup {instances[NextUnready(instances, cursor)].id}
    /\ Uncaught("APIError")
    /\ UNCHANGED <<auxVars, argVars, instances, wait, created, nextId, remote,
                   errored, postCalls, recDelFailed, catVars, cfgVars,
                   prepVars, instVars, cleanVars>>

\* r['status'] == 'BUILD'
PollBuild ==
    /\ pc = "poll"
    /\ NextUnready(instances, cursor) # 0
    /\ \E outs \in AttemptSeqs : OVHClient_get(outs).ok
    /\ cursor' = NextUnready(instances, cursor)
    /\ polled' = polled \cup {instances[NextUnready(instances, cursor)].id}
    /\ wait' = TRUE
    /\ Running
    /\ UNCHANGED <<auxVars, argVars, pc, instances, created, nextId, remote, errored,
                   postCalls, recDelFailed, catVars, cfgVars, prepVars,
                   instVars, cleanVars>>

\* r['status'] == 'ACTIVE': r['ipAddresses'][0] raises IndexError on an
\* empty list; the ip is recorded when the connect to port 22 returns 0
PollActive ==
    /\ pc = "poll"
    /\ NextUnready(instances, cursor) # 0
    /\ \E outs \in AttemptSeqs : OVHClient_get(outs).ok
    /\ LET j == NextUnready(instances, cursor)
       IN  /\ cursor' = j
           /\ polled' = polled \cup {instances[j].id}
           /\ \E hasAddress \in BOOLEAN, connect_ex \in {0, 111} :
                IF ~hasAddress
                THEN /\ Uncaught("IndexError")
                     /\ UNCHANGED <<instances, wait>>
                ELSE /\ Running
                     /\ pc' = pc
                     /\ IF connect_ex = 0
                        THEN /\ instances' =
                                  [instances EXCEPT ![j].ip = IpOf(instances[j].id)]
                             /\ wait' = wait
                        ELSE /\ instances' = instances
                             /\ wait' = TRUE
    /\ UNCHANGED <<auxVars, argVars, created, nextId, remote, errored, postCalls,
                   recDelFailed, catVars, cfgVars, prepVars, instVars,
                   cleanVars>>

\* any other status: logged, wait is left as it is
PollUnexpected ==
    /\ pc = "poll"
    /\ NextUnready(instances, cursor) # 0
    /\ \E outs \in AttemptSeqs : OVHClient_get(outs).ok
    /\ cursor' = NextUnready(instances, cursor)
    /\ polled' = polled \cup {instances[NextUnready(instances, cursor)].id}
    /\ Running
    /\ UNCHANGED <<auxVars, argVars, pc, instances, wait, created, nextId, remote,
                   errored, postCalls, recDelFailed, catVars, cfgVars,
                   prepVars, instVars, cleanVars>>

\* -------------------------------------------------- recover_instance_error
\* del(self.instances[next(i for (i, d) in enumerate(...) if d["id"] == id)])
DelInstance(insts, instance_id) ==
    LET k == Min({i \in 1..Len(insts) : insts[i].id = instance_id})
    IN  SubSeq(insts, 1, k - 1) \o SubSeq(insts, k + 1, Len(insts))

\* variant: the failed entry is left in the list
recover_instance_error_keep(insts, instance_id, d, c) ==
    IF ~d.ok
    THEN [instances |-> insts, deleted |-> FALSE, createRan |-> FALSE,
          err |-> "APIError"]
    ELSE [instances |-> insts \o c.new, deleted |-> TRUE,
          createRan |-> TRUE, err |-> c.err]

\* recover_instance_error: the entry is dropped from the list first, then
\* the remote delete (d), then create_instance for one instance (c); an
\* exception of the delete or of the create leaves the method at once
recover_instance_error(insts, instance_id, d, c) ==
    LET removed == DelInstance(insts, instance_id)
    IN  IF ~d.ok
        THEN [instances |-> removed, deleted |-> FALSE, createRan |-> FALSE,
              err |-> "APIError"]
        ELSE [instances |-> removed \o c.new, deleted |-> TRUE,
              createRan |-> TRUE, err |-> c.err]

\* variant: the for loop goes on after the recovery (no break)
PollError_nobreak ==
    /\ pc = "poll"
    /\ NextUnready(instances, cursor) # 0
    /\ nextId - 1 - (masters + agents) < MaxReplacements
    /\ \E outs \in AttemptSeqs : OVHClient_get(outs).ok
    /\ LET j == NextUnready(instances, cursor)
           id == instances[j].id
       IN  /\ cursor' = j
           /\ polled' = polled \cup {id}
           /\ errored' = errored \cup {id}
           /\ \E d \in DeleteResults, ff \in FetchOutcomes(_flavors),
                 fi \in FetchOutcomes(_images),
                 fk \in FetchOutcomes(_ssh_keys), p \in PostResults :
                LET c == create_instance(1, ff, fi, fk, p)
                    r == recover_instance_error(instances, id, d, c)
                IN  /\ instances' = r.instances
                    /\ recDelFailed' = (recDelFailed \/ ~r.deleted)
                    /\ IF r.createRan
                       THEN CreateEffects(c, remote \ {id})
                       ELSE UNCHANGED <<catVars, postCalls, nextId, remote>>
                    /\ IF r.err = "none"
                       THEN /\ wait' = TRUE
                            /\ pc' = "poll"
                            /\ Running
                       ELSE /\ wait' = wait
                            /\ Uncaught(r.err)
    /\ UNCHANGED <<auxVars, argVars, created, cfgVars, prepVars, instVars, cleanVars>>

\* r['status'] == 'ERROR': recover_instance_error, wait = True, break
PollError ==
    /\ pc = "poll"
    /\ NextUnready(instances, cursor) # 0
    /\ nextId - 1 - (masters + agents) < MaxReplacements
    /\ \E outs \in AttemptSeqs : OVHClient_get(outs).ok
    /\ LET j == NextUnready(instances, cursor)
           id == instances[j].id
       IN  /\ cursor' = j
           /\ polled' = polled \cup {id}
           /\ errored' = errored \cup {id}
           /\ \E d \in DeleteResults, ff \in FetchOutcomes(_flavors),
                 fi \in FetchOutcomes(_images),
                 fk \in FetchOutcomes(_ssh_keys), p \in PostResults :
                LET c == create_instance(1, ff, fi, fk, p)
                    r == recover_instance_error(instances, id, d, c)
                IN  /\ instances' = r.instances
                    /\ recDelFailed' = (recDelFailed \/ ~r.deleted)
                    /\ IF r.createRan
                       THEN CreateEffects(c, remote \ {id})
                       ELSE UNCHANGED <<catVars, postCalls, nextId, remote>>
                    /\ IF r.err = "none"
                       THEN /\ wait' = TRUE
                            /\ pc' = "loop"
                            /\ Running
                       ELSE /\ wait' = wait
                            /\ Uncaught(r.err)
    /\ UNCHANGED <<auxVars, argVars, created, cfgVars, prepVars, instVars, cleanVars>>

\* ----------------------------------------------------------- write_config
\* Python's s[:k] for k >= 0
SliceTo(s, k) == SubSeq(s, 1, IF k < Len(s) THEN k ELSE Len(s))

\* Python's s[k:] for any integer k: a negative k counts from the end,
\* and -0 is 0
SliceFrom(s, k) ==
    LET start == IF k < 0
                 THEN (IF Len(s) + k > 0 THEN Len(s) + k ELSE 0)
                 ELSE (IF k < Len(s) THEN k ELSE Len(s))
    IN  SubSeq(s, start + 1, Len(s))

\* [i['ip'] for i in instances][:master]
MasterList(insts, master) == SliceTo(Ips(insts), master)

\* [i['ip'] for i in instances][-agents:]
AgentList(insts, agts) == SliceFrom(Ips(insts), 0 - agts)

\* write_config: i['ip'] raises KeyError for an entry without ip
WriteConfig ==
    /\ pc = "write_config"
    /\ IF \E i \in 1..Len(instances) : instances[i].ip = NoIp
       THEN /\ Uncaught("KeyError")
            /\ UNCHANGED <<cfgVars, hostIdx>>
       ELSE /\ master_list' = MasterList(instances, masters)
            /\ agent_list' = AgentList(instances, agents)
            /\ configWritten' = TRUE
            /\ hostIdx' = 0
            /\ pc' = "prep_for"
            /\ Running
    /\ UNCHANGED <<auxVars, argVars, provVars, catVars, retries, success, prepLog,
                   instVars, cleanVars>>

\* ------------------------------------------------------------- stream_cmd
ReturnCodes == {0, 1}

\* variant: the return code is not looked at
stream_cmd_nocheck(rc) == TRUE

\* stream_cmd returns True when the return code is 0 and raises ValueError
\* otherwise
stream_cmd(rc) == rc = 0

\* ------------------------------------------------------------ system_prep
\* for i in self.oi.instances: ... retries = 3; success = False
PrepForNext ==
    /\ pc = "prep_for"
    /\ hostIdx < Len(instances)
    /\ hostIdx' = hostIdx + 1
    /\ retries' = PrepRetries
    /\ success' = FALSE
    /\ prepLog' = Append(prepLog, <<>>)
    /\ pc' = "prep_while"
    /\ Running
    /\ UNCHANGED <<auxVars, argVars, provVars, catVars, cfgVars, instVars, cleanVars>>

\* variant: the retry counter is tested with >=
PrepWhile_offByOne(r, s) == r >= 0 /\ ~s

\* while retries > 0 and not success
PrepWhile(r, s) == r > 0 /\ ~s

\* one pass of the while body: stream_cmd, success on return, retries - 1
\* on ValueError
PrepAttempt ==
    /\ pc = "prep_while"
    /\ PrepWhile(retries, success)
    /\ \E rc \in ReturnCodes :
         /\ prepLog' = [prepLog EXCEPT ![hostIdx] = Append(@, stream_cmd(rc))]
         /\ IF stream_cmd(rc)
            THEN /\ success' = TRUE
                 /\ retries' = retries
            ELSE /\ success' = success
                 /\ retries' = retries - 1
    /\ Running
    /\ UNCHANGED <<auxVars, argVars, pc, provVars, catVars, cfgVars, hostIdx,
                   instVars, cleanVars>>

\* variant: a host that used up its retries ends the run
PrepWhileExit_abort ==
    /\ pc = "prep_while"
    /\ ~PrepWhile(retries, success)
    /\ IF success
       THEN /\ pc' = "prep_for"
            /\ Running
       ELSE Uncaught("ValueError")
    /\ UNCHANGED <<auxVars, argVars, provVars, catVars, cfgVars, prepVars, instVars,
                   cleanVars>>

\* the while test fails: on to the next host
PrepWhileExit ==
    /\ pc = "prep_while"
    /\ ~PrepWhile(retries, success)
    /\ pc' = "prep_for"
    /\ Running
    /\ UNCHANGED <<auxVars, argVars, provVars, catVars, cfgVars, prepVars, instVars,
                   cleanVars>>

\* the for loop is exhausted: system_prep returns, deploy calls install
PrepDone ==
    /\ pc = "prep_for"
    /\ hostIdx >= Len(instances)
    /\ pc' = "install"
    /\ Running
    /\ UNCHANGED <<auxVars, argVars, provVars, catVars, cfgVars, prepVars, instVars,
                   cleanVars>>

\* ---------------------------------------------------------------- install
\* variant: a failed phase does not stop the sequence
InstallPhase_continue ==
    /\ pc = "install"
    /\ phase < Len(Phases)
    /\ \E rc \in ReturnCodes :
         phaseLog' = Append(phaseLog,
                            [phase |-> Phases[phase + 1], ok |-> stream_cmd(rc)])
    /\ phase' = phase + 1
    /\ pc' = pc
    /\ Running
    /\ UNCHANGED <<auxVars, argVars, provVars, catVars, cfgVars, prepVars, cleanVars>>

\* the next stream_cmd of the try block; ValueError -> sys.exit(1)
InstallPhase ==
    /\ pc = "install"
    /\ phase < Len(Phases)
    /\ \E rc \in ReturnCodes :
         /\ phaseLog' = Append(phaseLog,
                               [phase |-> Phases[phase + 1], ok |-> stream_cmd(rc)])
         /\ IF stream_cmd(rc)
            THEN /\ phase' = phase + 1
                 /\ pc' = pc
                 /\ Running
            ELSE /\ phase' = phase
                 /\ sys_exit(1, "none")
    /\ UNCHANGED <<auxVars, argVars, provVars, catVars, cfgVars, prepVars, cleanVars>>

\* the try block is done: install logs the endpoints and returns
InstallDone ==
    /\ pc = "install"
    /\ phase = Len(Phases)
    /\ pc' = "input"
    /\ Running
    /\ UNCHANGED <<auxVars, argVars, provVars, catVars, cfgVars, prepVars, instVars,
                   cleanVars>>

\* main: input('Press Enter ...') then sys.exit(0); input raises EOFError
\* on a closed stdin
PressEnter ==
    /\ pc = "input"
    /\ \E eof \in BOOLEAN :
         IF eof THEN Uncaught("EOFError") ELSE sys_exit(0, "none")
    /\ UNCHANGED <<auxVars, argVars, provVars, catVars, cfgVars, prepVars, instVars,
                   cleanVars>>

\* ---------------------------------------------------------------- cleanup
\* the interpreter calls the registered cleanup
AtExit ==
    /\ pc = "atexit"
    /\ cleanupCalls' = cleanupCalls + 1
    /\ cleanupIdx' = 0
    /\ pc' = "cleanup"
    /\ Running
    /\ UNCHANGED <<auxVars, argVars, provVars, catVars, cfgVars, prepVars, instVars,
                   deleteLog, cleanupRaised>>

\* for instance in self.instances: self.cleanup_instance(instance['id'])
\* the delete's error is not caught
CleanupInstance ==
    /\ pc = "cleanup"
    /\ cleanupIdx < Len(instances)
    /\ LET id == instances[cleanupIdx + 1].id
       IN  /\ deleteLog' = Append(deleteLog, id)
           /\ \E d \in DeleteResults :
                IF d.ok
                THEN /\ remote' = remote \ {id}
                     /\ cleanupIdx' = cleanupIdx + 1
                     /\ UNCHANGED <<pc, cleanupRaised>>
                ELSE /\ cleanupRaised' = TRUE
                     /\ pc' = "exited"
                     /\ UNCHANGED <<remote, cleanupIdx>>
    /\ Running
    /\ UNCHANGED <<auxVars, argVars, instances, wait, cursor, created, nextId,
                   errored, postCalls, recDelFailed, polled, catVars, cfgVars,
                   prepVars, instVars, cleanupCalls>>

\* cleanup returns and the process ends
CleanupEnd ==
    /\ pc = "cleanup"
    /\ cleanupIdx >= Len(instances)
    /\ pc' = "exited"
    /\ Running
    /\ UNCHANGED <<auxVars, argVars, provVars, catVars, cfgVars, prepVars, instVars,
                   cleanVars>>

\* ---------------------------------------------------------- specification
Next ==
    \/ Download
    \/ CreateInstances
    \/ PassStart
    \/ LoopReturn
    \/ PassEnd
    \/ PollGetFails
    \/ PollBuild
    \/ PollActive
    \/ PollUnexpected
    \/ PollError
    \/ WriteConfig
    \/ PrepForNext
    \/ PrepAttempt
    \/ PrepWhileExit
    \/ PrepDone
    \/ InstallPhase
    \/ InstallDone
    \/ PressEnter
    \/ AtExit
    \/ CleanupInstance
    \/ CleanupEnd

Spec == Init /\ [][Next]_vars

Pcs == {"download", "create", "loop", "poll", "write_config", "prep_for",
        "prep_while", "install", "input", "atexit", "cleanup", "exited"}

TypeOK ==
    /\ masters \in 0..MaxMasters /\ agents \in 0..MaxAgents
    /\ pc \in Pcs
    /\ exitCode \in {-1, 0, 1}
    /\ exc \in {"none", "APIError", "KeyError", "IndexError", "EOFError"}
    /\ \A i \in 1..Len(instances) :
         /\ instances[i].id \in 1..(nextId - 1)
         /\ instances[i].ip \in {NoIp, IpOf(instances[i].id)}
    /\ wait \in BOOLEAN /\ created \in BOOLEAN /\ recDelFailed \in BOOLEAN
    /\ cursor \in 0..Len(instances) + 1
    /\ remote \subseteq 1..(nextId - 1)
    /\ errored \subseteq 1..(nextId - 1)
    /\ polled \subseteq 1..(nextId - 1)
    /\ {_flavors, _images, _ssh_keys} \subseteq Listings
    /\ hostIdx \in 0..Len(instances)
    /\ retries \in 0..PrepRetries
    /\ phase \in 0..Len(Phases)
    /\ cleanupCalls \in 0..1

\* ---------------------------------------------------- the fair provider
\* a poll that finds the instance ACTIVE with port 22 reachable
PollReady == PollActive /\ instances' # instances

\* the program keeps running, and an instance that is queried again and
\* again is at some query ACTIVE and reachable; ERROR answers are finite
\* by MaxReplacements
LiveSpec == Spec /\ WF_vars(Next) /\ SF_vars(PollReady)

\* ----------------------------------------------------- the Gateway alone
\* one call of one OVHClient method; gwOuts[i] is what attempt i meets
MainIdle ==
    /\ masters = 1
    /\ agents = 1
    /\ MainStart

GwInit ==
    /\ MainIdle
    /\ RunIdle
    /\ gwOp \in {"get", "post", "delete"}
    /\ gwOuts \in AttemptSeqs
    /\ gwResult = NoCall

GwGet ==
    /\ gwOp = "get"
    /\ gwResult = NoCall
    /\ gwResult' = OVHClient_get(gwOuts)
    /\ UNCHANGED <<mainVars, runVars, gwOp, gwOuts>>

GwDelete ==
    /\ gwOp = "delete"
    /\ gwResult = NoCall
    /\ gwResult' = OVHClient_delete(gwOuts)
    /\ UNCHANGED <<mainVars, runVars, gwOp, gwOuts>>

GwPost ==
    /\ gwOp = "post"
    /\ gwResult = NoCall
    /\ gwResult' = OVHClient_post(gwOuts)
    /\ UNCHANGED <<mainVars, runVars, gwOp, gwOuts>>

GwNext == GwGet \/ GwDelete \/ GwPost

GwSpec == GwInit /\ [][GwNext]_vars

\* --------------------------------------------------- stream_cmd in detail
\* one call of stream_cmd and the command it starts, running concurrently:
\* the command writes lines to the pipe and exits when it likes; the
\* caller loops on p.poll() and p.stdout.readline()

\* p = subprocess.Popen(cmd, stdout=subprocess.PIPE, shell=True)
Popen ==
    /\ rpc = "idle"
    /\ started' = started + 1
    /\ child' = "running"
    /\ rpc' = "poll"
    /\ UNCHANGED <<mainVars, gwVars, returncode, produced, pipe, sink,
                   raisedCode>>

\* the command writes its next line
ChildWrite ==
    /\ child = "running"
    /\ Len(produced) < MaxLines
    /\ produced' = Append(produced, Len(produced) + 1)
    /\ pipe' = Append(pipe, Len(produced) + 1)
    /\ UNCHANGED <<mainVars, gwVars, rpc, started, child, returncode, sink,
                   raisedCode>>

\* the command exits; its end of the pipe is closed
ChildExit ==
    /\ child = "running"
    /\ child' = "exited"
    /\ returncode' \in ReturnCodes
    /\ UNCHANGED <<mainVars, gwVars, rpc, started, produced, pipe, sink,
                   raisedCode>>

\* while p.poll() is None
RunnerPoll ==
    /\ rpc = "poll"
    /\ rpc' = IF child = "exited" THEN "check" ELSE "read"
    /\ UNCHANGED <<mainVars, gwVars, started, child, returncode, produced,
                   pipe, sink, raisedCode>>

\* sys.stdout.write(p.stdout.readline().decode(...)): readline blocks until
\* a line is there or the pipe is at end of file, where it returns b''
RunnerReadline ==
    /\ rpc = "read"
    /\ pipe # <<>> \/ child = "exited"
    /\ IF pipe # <<>>
       THEN /\ sink' = Append(sink, Head(pipe))
            /\ pipe' = Tail(pipe)
       ELSE UNCHANGED <<sink, pipe>>
    /\ rpc' = "poll"
    /\ UNCHANGED <<mainVars, gwVars, started, child, returncode, produced,
                   raisedCode>>

\* if p.returncode != 0: raise ValueError(msg) else return True
RunnerCheck ==
    /\ rpc = "check"
    /\ IF stream_cmd(returncode)
       THEN /\ rpc' = "returned"
            /\ raisedCode' = raisedCode
       ELSE /\ rpc' = "raised"
            /\ raisedCode' = returncode
    /\ UNCHANGED <<mainVars, gwVars, started, child, returncode, produced,
                   pipe, sink>>

RunInit ==
    /\ MainIdle
    /\ GwIdle
    /\ RunIdle

RunNext ==
    \/ Popen
    \/ ChildWrite
    \/ ChildExit
    \/ RunnerPoll
    \/ RunnerReadline
    \/ RunnerCheck

RunSpec == RunInit /\ [][RunNext]_vars

\* ================================================================= claims
ExitPcs == {"atexit", "cleanup", "exited"}

\* C1: once the bulk create has returned, the working set holds exactly
\* masters + agents entries in every state until the process has exited,
\* also when the delete or the create inside a recovery fails.
C1_WorkingSetSize ==
    (created /\ pc # "exited") => Len(instances) = masters + agents

\* C2: the polling loop returns only when every instance of the working
\* set is Ready (has a recorded ip).
C2_LoopReturnsAllReady ==
    pc = "write_config" =>
        \A i \in 1..Len(instances) : instances[i].ip # NoIp

\* C3: no instance observed in ERROR is in the working set when a pass
\* starts or runs, and a recovery after which the loop goes on has
\* replaced the failed entry by exactly one new entry without ip whose
\* id differs from the failed one and from every id of the set.
C3_ErrorReplaced ==
    [][ /\ (pc' \in {"loop", "poll"} => errored' \cap Ids(instances') = {})
        /\ (errored' # errored /\ pc' = "loop" =>
              \E f \in errored' \ errored :
                 LET new == instances'[Len(instances')]
                 IN  /\ f \in Ids(instances)
                     /\ f \notin Ids(instances')
                     /\ Len(instances') = Len(instances)
                     /\ new.ip = NoIp
                     /\ new.id # f
                     /\ new.id \notin Ids(instances)
                     /\ Ids(instances') = (Ids(instances) \ {f}) \cup {new.id})
      ]_vars

\* a later pass is running after a recovery, the replacement still waiting
C3_Witness ==
    /\ pc = "poll"
    /\ errored # {}
    /\ \E i \in 1..Len(instances) :
         instances[i].id > masters + agents /\ instances[i].ip = NoIp

\* C4: when the remote delete of a recovery fails, the replacement create
\* is still issued and, when the create succeeds, the replacement is in
\* the working set and the polling loop goes on.
C4_DeleteFailureNotFatal ==
    [][ (recDelFailed' /\ ~recDelFailed) =>
          /\ postCalls' = postCalls + 1
          /\ (nextId' > nextId =>
                /\ pc' = "loop"
                /\ wait'
                /\ Len(instances') = Len(instances)
                /\ instances'[Len(instances')] = [id |-> nextId, ip |-> NoIp])
      ]_vars

\* C5: write_config makes master_list the first masters addresses and
\* agent_list the last agents addresses, of lengths masters and agents,
\* disjoint, and together all the Ready instances.
C5_RoleAssignment ==
    configWritten =>
        LET ips == Ips(instances)
            n == Len(ips)
        IN  /\ master_list = SubSeq(ips, 1, masters)
            /\ agent_list = SubSeq(ips, n - agents + 1, n)
            /\ Len(master_list) = masters
            /\ Len(agent_list) = agents
            /\ Range(master_list) \cap Range(agent_list) = {}
            /\ Range(master_list) \cup Range(agent_list) = Range(ips)

\* C6: the phases are invoked in the fixed order, each at most once and
\* never again after a failure; a failed phase is the last one invoked and
\* the run ends with exit status 1.
C6_InstallOrder ==
    /\ Len(phaseLog) <= Len(Phases)
    /\ \A k \in 1..Len(phaseLog) :
         /\ phaseLog[k].phase = Phases[k]
         /\ ~phaseLog[k].ok =>
              /\ k = Len(phaseLog)
              /\ pc \in ExitPcs
              /\ exitCode = 1

\* preflight failed after two good phases and the process has exited
C6_Witness ==
    /\ pc = "exited"
    /\ Len(phaseLog) = 3
    /\ phaseLog[1].ok /\ phaseLog[2].ok /\ ~phaseLog[3].ok

\* C7: cleanup is entered exactly once on every exit path, and only after
\* the run has been ended (no cleanup and no cleanup delete while the
\* pipeline is still running).
C7_CleanupOnce ==
    /\ cleanupCalls <= 1
    /\ (pc = "exited" => cleanupCalls = 1)
    /\ (cleanupCalls >= 1 => pc \in {"cleanup", "exited"} /\ exitCode # -1)
    /\ (pc \notin ExitPcs => cleanupCalls = 0 /\ deleteLog = <<>>)

\* the run ended on a failed install phase and cleanup has run
C7_Witness ==
    /\ pc = "exited"
    /\ cleanupCalls = 1
    /\ phaseLog # <<>>
    /\ ~phaseLog[Len(phaseLog)].ok

\* C8: when the process has exited, cleanup has issued a delete for every
\* instance of the working set and no delete error has escaped it.
C8_CleanupBestEffort ==
    pc = "exited" =>
        /\ ~cleanupRaised
        /\ Range(deleteLog) = Ids(instances)

\* C9: system preparation never ends the run: whatever the hosts answer,
\* once it has started, the command is attempted for every host of the
\* working set before anything else happens and the install stage follows.
C9_PrepTolerant ==
    /\ (pc \in {"prep_for", "prep_while"} => exitCode = -1 /\ exc = "none")
    /\ (pc \in {"install", "input"} \/ (pc \in ExitPcs /\ prepLog # <<>>) =>
          /\ Len(prepLog) = Len(instances)
          /\ \A h \in 1..Len(prepLog) : Len(prepLog[h]) >= 1)
    /\ (pc \in ExitPcs /\ prepLog # <<>> => phaseLog # <<>>)

\* a host failed its three attempts, the next host was attempted and the
\* install stage has been reached
C9_Witness ==
    /\ pc = "install"
    /\ \E h \in 1..(Len(prepLog) - 1) :
         /\ prepLog[h] = <<FALSE, FALSE, FALSE>>
         /\ Len(prepLog[h + 1]) >= 1

\* C10: per host the command runs at least once and at most 3 times, and
\* every run but the host's last one has failed.
C10_PrepAttempts ==
    \A h \in 1..Len(prepLog) :
        /\ Len(prepLog[h]) <= 3
        /\ \A k \in 1..(Len(prepLog[h]) - 1) : ~prepLog[h][k]
        /\ (h < Len(prepLog) \/ pc # "prep_while") => Len(prepLog[h]) >= 1

\* one host succeeded on its third run, another on its first
C10_Witness ==
    /\ pc = "install"
    /\ \E h, g \in 1..Len(prepLog) :
         /\ prepLog[h] = <<FALSE, FALSE, TRUE>>
         /\ prepLog[g] = <<TRUE>>

\* C11: get, post and delete alike go on to a next attempt after a
\* transient failure, up to 3 attempts: the call succeeds at the first
\* attempt that succeeds and fails only after the third failed attempt.
C11_AllOpsRetry ==
    (gwResult # NoCall /\ \A i \in 1..3 : gwOuts[i] \in {"ok", "transient"}) =>
        LET okIdx == {i \in 1..3 : gwOuts[i] = "ok"}
        IN  IF okIdx # {}
            THEN gwResult.ok /\ gwResult.attempts = Min(okIdx)
            ELSE ~gwResult.ok /\ gwResult.attempts = 3

\* C12: a get or delete whose first attempt meets a permanent error fails
\* after exactly one attempt.
C12_PermanentNotRetried ==
    (gwResult # NoCall /\ gwOp \in {"get", "delete"}
       /\ gwOuts[1] = "permanent") =>
        ~gwResult.ok /\ gwResult.attempts = 1

\* C13: over the whole run, the bulk create and every recovery create
\* included, at most one listing fetch is issued for each category.
C13_FetchOnce ==
    \A c \in Categories : fetches[c] <= 1

\* a recovery create has followed the bulk create, each listing fetched once
C13_Witness ==
    /\ postCalls >= 2
    /\ nextId > masters + agents + 1
    /\ \A c \in Categories : fetches[c] = 1

\* C14: one call starts the command once; it returns True exactly when
\* the exit code is 0 and otherwise raises the error carrying the code.
C14_ExitCodeOnly ==
    /\ started <= 1
    /\ rpc \in {"returned", "raised"} => started = 1 /\ child = "exited"
    /\ rpc = "returned" => returncode = 0 /\ raisedCode = -1
    /\ rpc = "raised" => returncode # 0 /\ raisedCode = returncode

\* the command wrote a line, exited with code 1 and the call raised
C14_Witness ==
    /\ rpc = "raised"
    /\ returncode = 1
    /\ produced # <<>>

\* C15: when stream_cmd returns or raises, the lines written to the sink
\* are the lines the command produced, in order.
C15_OutputComplete ==
    rpc \in {"returned", "raised"} => sink = produced

\* C16: a poll that meets ERROR and recovers leaves the pass at once with
\* wait set, so the loop cannot return; the next pass starts from the
\* head of the list, and a pass that runs to its end has queried every
\* instance that is not Ready.
C16_ErrorCutsPass ==
    [][ /\ (pc = "poll" /\ errored' # errored /\ pc' \notin ExitPcs =>
              /\ pc' = "loop"
              /\ wait'
              /\ polled' = polled \cup (errored' \ errored))
        /\ (pc = "loop" /\ wait => pc' = "poll" /\ cursor' = 0 /\ polled' = {})
        /\ (pc = "poll" /\ pc' = "loop" /\ errored' = errored =>
              \A i \in 1..Len(instances) :
                 instances[i].ip = NoIp => instances[i].id \in polled)
      ]_vars

\* a recovery cut a pass short while an instance was still unqueried; the
\* next pass has queried an original instance and the replacement
C16_Witness ==
    /\ pc = "poll"
    /\ errored # {}
    /\ \E a, b \in polled : a <= masters + agents /\ b > masters + agents

\* a host's preparation is over: its last run succeeded or it had 3 runs
PrepFinished(log) ==
    /\ Len(log) >= 1
    /\ log[Len(log)] \/ Len(log) = PrepRetries

\* C17: the lists are assigned once, by the step that follows the return
\* of the polling loop, and never change afterwards; a preparation command
\* runs only after that; an install phase runs only when the preparation
\* of every host is over.
C17_StageOrder ==
    [][ /\ (cfgVars' # cfgVars =>
              pc = "write_config" /\ ~configWritten /\ configWritten')
        /\ (configWritten' => pc' \notin {"download", "create", "loop", "poll",
                                          "write_config"})
        /\ (prepLog' # <<>> => configWritten')
        /\ (phaseLog' # <<>> =>
              /\ Len(prepLog') = Len(instances')
              /\ \A h \in 1..Len(prepLog') : PrepFinished(prepLog'[h]))
      ]_vars

\* the first install phase has run after a preparation with a failed host
C17_Witness ==
    /\ configWritten
    /\ Len(phaseLog) = 1
    /\ \E h \in 1..Len(prepLog) : prepLog[h] = <<FALSE, FALSE, FALSE>>

\* C18: an entry with an ip stays in the working set unchanged on every
\* step, and the status of an instance is only queried while its entry
\* has no ip.
C18_ReadyAbsorbing ==
    [][ /\ \A i \in 1..Len(instances) :
             instances[i].ip # NoIp =>
                \E k \in 1..Len(instances') : instances'[k] = instances[i]
        /\ \A id \in polled' \ polled :
             \E i \in 1..Len(instances) :
                instances[i].id = id /\ instances[i].ip = NoIp
      ]_vars

\* after a recovery, a pass has gone past a Ready entry without querying it
C18_Witness ==
    /\ pc = "poll"
    /\ errored # {}
    /\ polled # {}
    /\ \E i \in 1..Len(instances) :
         /\ instances[i].ip # NoIp
         /\ instances[i].id \notin polled
         /\ i <= cursor

\* C19: every instance created and not successfully deleted is in the
\* working set.
C19_NoOrphan ==
    remote \subseteq Ids(instances)

\* C20: under the fair provider, once the bulk create has returned the
\* polling loop is eventually left.
C20_LoopTerminates ==
    created ~> (pc \notin {"loop", "poll"})

\* the loop has returned after a recovery, every instance Ready
C20_Witness ==
    /\ pc = "write_config"
    /\ errored # {}
    /\ \A i \in 1..Len(instances) : instances[i].ip # NoIp

====
